---- MODULE Spec2Model ----
(***************************************************************************)
(* Process lifecycle of chat-groupservice (src/main.go): the plaintext and *)
(* the TLS listener goroutines, the unbuffered error channel errChan, the  *)
(* buffered signal channel quit, and main's select with the sequential     *)
(* graceful shutdown that follows it.                                      *)
(***************************************************************************)
EXTENDS Integers, Sequences, FiniteSets, TLC

\* ------------------------------------------------------------------ bounds
\* Operator signals the environment sends during one run.
MaxSignals == 2
\* In-flight connections one http.Server holds at a time.
MaxConns == 1

\* --------------------------------------------------------------- constants
\* The two http.Server values of main: httpServer and httpsServer.
Servers == {"http", "https"}

Peer(s) == IF s = "http" THEN "https" ELSE "http"

\* Paths are sequences of string fragments, so that Go's string "+" is \o.
Sep == "/"
CertFile == <<"cert.pem">>
KeyFile == <<"key.pem">>

\* Values conf.CertDir can take: the directory named without a trailing
\* separator, with one, and with two.
CertDirs == {<<"certs">>, <<"certs", Sep>>, <<"certs", Sep, Sep>>}

\* The file `name` inside the TLS material directory.
InCertDir(name) == <<"certs", Sep>> \o name

\* Files that may exist: the two inside the directory and their two
\* siblings whose names begin with the directory's name.
FilePaths == {InCertDir(CertFile), InCertDir(KeyFile),
              <<"certs">> \o CertFile, <<"certs">> \o KeyFile}

VARIABLES
    certDir,      \* conf.CertDir
    fs,           \* the set of existing file paths
    mainPc,       \* main goroutine: position in main()
    exitCode,     \* process exit status, -1 while the process runs
    quit,         \* number of signals buffered in quit (capacity 1)
    signalsSent,  \* signals the environment has sent so far
    ctx,          \* the context of line 103: "none", "active", "expired"
    tpc,          \* listener goroutine of each server: its position
    terr,         \* the error value each listener goroutine holds for errChan
    inShutdown,   \* http.Server.inShutdown of each server
    active,       \* in-flight connections of each server
    started,      \* history: the server's listener was bound
    served,       \* history: the server has accepted a connection
    stopCalls,    \* history: number of Shutdown calls made on each server
    stopResult,   \* history: what Shutdown returned: "none", "nil", "deadline"
    delivered,    \* history: main received this server's error from errChan
    trigger,      \* history: which branch of the select ran
    consumed,     \* history: number of events main took from quit or errChan
    failedWhilePeerServing, \* history: runtime failure while the peer served
    signalWhileHealthy \* history: a signal came while both listeners served

vars == <<certDir, fs, mainPc, exitCode, quit, signalsSent, ctx, tpc, terr,
          inShutdown, active, started, served, stopCalls, stopResult,
          delivered, trigger, consumed, failedWhilePeerServing,
          signalWhileHealthy>>

env == <<certDir, fs>>
mainVars == <<mainPc, exitCode, ctx, trigger, consumed>>
hist == <<failedWhilePeerServing, signalWhileHealthy>>

\* ------------------------------------------------------------ pure helpers
\* filepath.Clean restricted to what these paths need: runs of separators
\* collapse to one.
RECURSIVE Clean(_)
Clean(p) ==
    IF Len(p) < 2 THEN p
    ELSE IF p[1] = Sep /\ p[2] = Sep THEN Clean(Tail(p))
    ELSE <<p[1]>> \o Clean(Tail(p))

\* filepath.Join with a single element is Clean of that element.
Join1(p) == Clean(p)

\* cert := filepath.Join(certDir + "cert.pem")
CertPath(dir) == Join1(dir \o CertFile)

\* key := filepath.Join(certDir + "key.pem")
KeyPath(dir) == Join1(dir \o KeyFile)

\* os.Stat(p) returns a nil error
StatOk(p) == p \in fs

\* Exit status of log.Fatal / log.Fatalf (os.Exit(1)).
FatalStatus == 1
\* Exit status when main returns.
ReturnStatus == 0
\* quit := make(chan os.Signal, 1)
QuitCap == 1

\* The server each of the two Shutdown calls of the quit branch is made on.
FirstStop == "http"
SecondStop_Same == "http"
SecondStop == "https"

\* Goroutines run only while the process lives.
Running == mainPc # "exited"

\* A listener that is bound and accepting.
Serving(s) == tpc[s] = "serving" /\ ~inShutdown[s]

\* As ShutdownOutcomes, with a context that has no deadline passed in.
ShutdownOutcomes_NoDeadline(s) ==
    IF active[s] = 0 THEN {"nil"} ELSE {}

\* What (*http.Server).Shutdown(ctx) can return for server s now: nil once
\* no connection is in flight, ctx.Err() once the deadline passed with a
\* connection still in flight.
ShutdownOutcomes(s) ==
    (IF active[s] = 0 THEN {"nil"} ELSE {})
    \cup (IF ctx = "expired" /\ active[s] > 0 THEN {"deadline"} ELSE {})

\* os.Exit(code), or main returning: every goroutine ends with the process.
Exit(code) ==
    /\ mainPc' = "exited"
    /\ exitCode' = code

\* ------------------------------------------------------------------- Init
Init ==
    /\ certDir \in CertDirs
    /\ fs \in SUBSET FilePaths
    /\ mainPc = "select"
    /\ exitCode = -1
    /\ quit = 0
    /\ signalsSent = 0
    /\ ctx = "none"
    /\ tpc = [s \in Servers |-> IF s = "https" THEN "statCert" ELSE "listen"]
    /\ terr = [s \in Servers |-> "none"]
    /\ inShutdown = [s \in Servers |-> FALSE]
    /\ active = [s \in Servers |-> 0]
    /\ started = [s \in Servers |-> FALSE]
    /\ served = [s \in Servers |-> FALSE]
    /\ stopCalls = [s \in Servers |-> 0]
    /\ stopResult = [s \in Servers |-> "none"]
    /\ delivered = [s \in Servers |-> FALSE]
    /\ trigger = "none"
    /\ consumed = 0
    /\ failedWhilePeerServing = [s \in Servers |-> FALSE]
    /\ signalWhileHealthy = FALSE

\* ------------------------------------------------------------ environment
\* SIGINT or SIGTERM: signal.Notify sends without blocking and drops the
\* signal when quit is full.
Signal ==
    /\ Running
    /\ signalsSent < MaxSignals
    /\ signalsSent' = signalsSent + 1
    /\ quit' = IF quit < QuitCap THEN quit + 1 ELSE quit
    /\ signalWhileHealthy' =
          \/ signalWhileHealthy
          \/ (quit < QuitCap /\ \A s \in Servers : Serving(s))
    /\ UNCHANGED <<env, mainVars, tpc, terr, inShutdown, active, started,
                   served,
                   stopCalls, stopResult, delivered, failedWhilePeerServing>>

\* The deadline of context.WithTimeout(..., 5*time.Second) passes.
CtxExpire ==
    /\ Running
    /\ ctx = "active"
    /\ ctx' = "expired"
    /\ UNCHANGED <<env, mainPc, exitCode, trigger, consumed, quit, signalsSent,
                   tpc, terr, inShutdown, active, started, served, stopCalls,
                   stopResult, delivered, hist>>

\* --------------------------------------------------- startHTTPSServer task
\* if _, err := os.Stat(cert); err != nil { log.Printf(...); return }
StatCert ==
    /\ Running
    /\ tpc["https"] = "statCert"
    /\ tpc' = [tpc EXCEPT !["https"] =
                 IF StatOk(CertPath(certDir)) THEN "statKey" ELSE "returned"]
    /\ UNCHANGED <<env, mainVars, quit, signalsSent, terr, inShutdown, active,
                   started, served, stopCalls, stopResult, delivered, hist>>

\* if _, err := os.Stat(key); err != nil { log.Printf(...); return }
StatKey ==
    /\ Running
    /\ tpc["https"] = "statKey"
    /\ tpc' = [tpc EXCEPT !["https"] =
                 IF StatOk(KeyPath(certDir)) THEN "listen" ELSE "returned"]
    /\ UNCHANGED <<env, mainVars, quit, signalsSent, terr, inShutdown, active,
                   started, served, stopCalls, stopResult, delivered, hist>>

\* --------------------------------------------------------- listener tasks
\* As Listen, without the check of inShutdown.
Listen_IgnoresShutdown(s) ==
    /\ Running
    /\ tpc[s] = "listen"
    /\ \E bound \in BOOLEAN :
          IF bound
          THEN /\ tpc' = [tpc EXCEPT ![s] = "serving"]
               /\ started' = [started EXCEPT ![s] = TRUE]
               /\ UNCHANGED terr
          ELSE /\ tpc' = [tpc EXCEPT ![s] = "sending"]
               /\ terr' = [terr EXCEPT ![s] = "startup"]
               /\ UNCHANGED started
    /\ UNCHANGED <<env, mainVars, quit, signalsSent, inShutdown, active,
                   served, stopCalls, stopResult, delivered, hist>>

\* ListenAndServe / ListenAndServeTLS is entered: ErrServerClosed when the
\* server is already shut down, a startup error when the bind (or loading
\* the key pair) fails, else the accept loop runs.
Listen(s) ==
    /\ Running
    /\ tpc[s] = "listen"
    /\ IF inShutdown[s]
       THEN /\ tpc' = [tpc EXCEPT ![s] = "sending"]
            /\ terr' = [terr EXCEPT ![s] = "ErrServerClosed"]
            /\ UNCHANGED started
       ELSE \E bound \in BOOLEAN :
              IF bound
              THEN /\ tpc' = [tpc EXCEPT ![s] = "serving"]
                   /\ started' = [started EXCEPT ![s] = TRUE]
                   /\ UNCHANGED terr
              ELSE /\ tpc' = [tpc EXCEPT ![s] = "sending"]
                   /\ terr' = [terr EXCEPT ![s] = "startup"]
                   /\ UNCHANGED started
    /\ UNCHANGED <<env, mainVars, quit, signalsSent, inShutdown, active,
                   served, stopCalls, stopResult, delivered, hist>>

\* The accept loop hands a new connection to the handler.
Accept(s) ==
    /\ Running
    /\ Serving(s)
    /\ active[s] < MaxConns
    /\ active' = [active EXCEPT ![s] = @ + 1]
    /\ served' = [served EXCEPT ![s] = TRUE]
    /\ UNCHANGED <<env, mainVars, quit, signalsSent, tpc, terr, inShutdown,
                   started, stopCalls, stopResult, delivered, hist>>

\* An in-flight connection completes.
ConnDone(s) ==
    /\ Running
    /\ active[s] > 0
    /\ active' = [active EXCEPT ![s] = @ - 1]
    /\ UNCHANGED <<env, mainVars, quit, signalsSent, tpc, terr, inShutdown,
                   started, served, stopCalls, stopResult, delivered, hist>>

\* Accept fails for good while the server is not shutting down: Serve
\* returns that error.
RuntimeFail(s) ==
    /\ Running
    /\ Serving(s)
    /\ tpc' = [tpc EXCEPT ![s] = "sending"]
    /\ terr' = [terr EXCEPT ![s] = "runtime"]
    /\ failedWhilePeerServing' =
          [failedWhilePeerServing EXCEPT ![s] = Serving(Peer(s))]
    /\ UNCHANGED <<env, mainVars, quit, signalsSent, inShutdown, active,
                   started, served, stopCalls, stopResult, delivered,
                   signalWhileHealthy>>

\* Shutdown closed the listener: Serve returns ErrServerClosed.
ServeClosed(s) ==
    /\ Running
    /\ tpc[s] = "serving"
    /\ inShutdown[s]
    /\ tpc' = [tpc EXCEPT ![s] = "sending"]
    /\ terr' = [terr EXCEPT ![s] = "ErrServerClosed"]
    /\ UNCHANGED <<env, mainVars, quit, signalsSent, inShutdown, active,
                   started, served, stopCalls, stopResult, delivered, hist>>

\* ---------------------------------------------------------------- main
\* Variables the listener tasks own and the history of the environment.
taskSide == <<env, signalsSent, active, started, served, hist>>

\* select, case <-quit: one signal is taken and the shared context made.
SelectQuit ==
    /\ mainPc = "select"
    /\ quit > 0
    /\ quit' = quit - 1
    /\ ctx' = "active"
    /\ trigger' = "signal"
    /\ consumed' = consumed + 1
    /\ mainPc' = "callFirst"
    /\ UNCHANGED <<taskSide, exitCode, tpc, terr, inShutdown, stopCalls,
                   stopResult, delivered>>

\* As SelectErr, with the listener goroutine looping back to listen again.
SelectErr_Retry(s) ==
    /\ mainPc = "select"
    /\ tpc[s] = "sending"
    /\ tpc' = [tpc EXCEPT ![s] = "listen"]
    /\ delivered' = [delivered EXCEPT ![s] = TRUE]
    /\ trigger' = "listener"
    /\ consumed' = consumed + 1
    /\ mainPc' = "fatal"
    /\ UNCHANGED <<taskSide, exitCode, ctx, quit, terr, inShutdown, stopCalls,
                   stopResult>>

\* select, case err := <-errChan: errChan is unbuffered, so the receive
\* meets a listener task that is blocked in its send.
SelectErr(s) ==
    /\ mainPc = "select"
    /\ tpc[s] = "sending"
    /\ tpc' = [tpc EXCEPT ![s] = "done"]
    /\ delivered' = [delivered EXCEPT ![s] = TRUE]
    /\ trigger' = "listener"
    /\ consumed' = consumed + 1
    /\ mainPc' = "fatal"
    /\ UNCHANGED <<taskSide, exitCode, ctx, quit, terr, inShutdown, stopCalls,
                   stopResult>>

\* log.Fatal(err) of the errChan branch.
LogFatal ==
    /\ mainPc = "fatal"
    /\ Exit(FatalStatus)
    /\ UNCHANGED <<taskSide, ctx, trigger, consumed, quit, tpc, terr,
                   inShutdown, stopCalls, stopResult, delivered>>

\* Shutdown is entered on server s: inShutdown is set and the listener is
\* closed; the call then waits for the connections in flight.
EnterShutdown(s) ==
    /\ inShutdown' = [inShutdown EXCEPT ![s] = TRUE]
    /\ stopCalls' = [stopCalls EXCEPT ![s] = @ + 1]

\* httpServer.Shutdown(ctx) is called.
CallFirstShutdown ==
    /\ mainPc = "callFirst"
    /\ EnterShutdown(FirstStop)
    /\ mainPc' = "inFirst"
    /\ UNCHANGED <<taskSide, exitCode, ctx, trigger, consumed, quit, tpc, terr,
                   stopResult, delivered>>

\* As FirstShutdownReturn, with the error only logged.
FirstShutdownReturn_ErrIgnored ==
    /\ mainPc = "inFirst"
    /\ \E r \in ShutdownOutcomes(FirstStop) :
          /\ stopResult' = [stopResult EXCEPT ![FirstStop] = r]
          /\ mainPc' = "callSecond"
          /\ UNCHANGED exitCode
    /\ UNCHANGED <<taskSide, ctx, trigger, consumed, quit, tpc, terr,
                   inShutdown, stopCalls, delivered>>

\* httpServer.Shutdown(ctx) returns: log.Fatalf on an error.
FirstShutdownReturn ==
    /\ mainPc = "inFirst"
    /\ \E r \in ShutdownOutcomes(FirstStop) :
          /\ stopResult' = [stopResult EXCEPT ![FirstStop] = r]
          /\ IF r = "nil"
             THEN mainPc' = "callSecond" /\ UNCHANGED exitCode
             ELSE Exit(FatalStatus)
    /\ UNCHANGED <<taskSide, ctx, trigger, consumed, quit, tpc, terr,
                   inShutdown, stopCalls, delivered>>

\* httpsServer.Shutdown(ctx) is called, with the same ctx.
CallSecondShutdown ==
    /\ mainPc = "callSecond"
    /\ EnterShutdown(SecondStop)
    /\ mainPc' = "inSecond"
    /\ UNCHANGED <<taskSide, exitCode, ctx, trigger, consumed, quit, tpc, terr,
                   stopResult, delivered>>

\* As SecondShutdownReturn, with the test of err inverted.
SecondShutdownReturn_Inverted ==
    /\ mainPc = "inSecond"
    /\ \E r \in ShutdownOutcomes(SecondStop) :
          /\ stopResult' = [stopResult EXCEPT ![SecondStop] = r]
          /\ IF r = "nil"
             THEN Exit(FatalStatus)
             ELSE Exit(ReturnStatus)
    /\ UNCHANGED <<taskSide, ctx, trigger, consumed, quit, tpc, terr,
                   inShutdown, stopCalls, delivered>>

\* As SecondShutdownReturn, inside a loop around the select.
SecondShutdownReturn_Loop ==
    /\ mainPc = "inSecond"
    /\ \E r \in ShutdownOutcomes(SecondStop) :
          /\ stopResult' = [stopResult EXCEPT ![SecondStop] = r]
          /\ IF r = "nil"
             THEN mainPc' = "select" /\ UNCHANGED exitCode
             ELSE Exit(FatalStatus)
    /\ UNCHANGED <<taskSide, ctx, trigger, consumed, quit, tpc, terr,
                   inShutdown, stopCalls, delivered>>

\* httpsServer.Shutdown(ctx) returns: log.Fatalf on an error, else main
\* returns.
SecondShutdownReturn ==
    /\ mainPc = "inSecond"
    /\ \E r \in ShutdownOutcomes(SecondStop) :
          /\ stopResult' = [stopResult EXCEPT ![SecondStop] = r]
          /\ IF r = "nil"
             THEN Exit(ReturnStatus)
             ELSE Exit(FatalStatus)
    /\ UNCHANGED <<taskSide, ctx, trigger, consumed, quit, tpc, terr,
                   inShutdown, stopCalls, delivered>>

\* ------------------------------------------------------------------ Next
Next ==
    \/ Signal
    \/ CtxExpire
    \/ StatCert
    \/ StatKey
    \/ \E s \in Servers : Listen(s)
    \/ \E s \in Servers : Accept(s)
    \/ \E s \in Servers : ConnDone(s)
    \/ \E s \in Servers : RuntimeFail(s)
    \/ \E s \in Servers : ServeClosed(s)
    \/ SelectQuit
    \/ \E s \in Servers : SelectErr(s)
    \/ LogFatal
    \/ CallFirstShutdown
    \/ FirstShutdownReturn
    \/ CallSecondShutdown
    \/ SecondShutdownReturn

Spec == Init /\ [][Next]_vars

\* The steps of the main goroutine.
MainStep ==
    \/ SelectQuit
    \/ \E s \in Servers : SelectErr(s)
    \/ LogFatal
    \/ CallFirstShutdown
    \/ FirstShutdownReturn
    \/ CallSecondShutdown
    \/ SecondShutdownReturn

\* The Go scheduler runs the main goroutine whenever it can take a step,
\* and the runtime timer of the context fires.
FairSpec == Spec /\ WF_vars(MainStep) /\ WF_vars(CtxExpire)

TypeOK ==
    /\ certDir \in CertDirs
    /\ fs \subseteq FilePaths
    /\ mainPc \in {"select", "fatal", "callFirst", "inFirst", "callSecond",
                    "inSecond", "exited"}
    /\ exitCode \in {-1, ReturnStatus, FatalStatus}
    /\ quit \in 0..QuitCap
    /\ signalsSent \in 0..MaxSignals
    /\ ctx \in {"none", "active", "expired"}
    /\ tpc \in [Servers -> {"statCert", "statKey", "returned", "listen",
                              "serving", "sending", "done"}]
    /\ terr \in [Servers -> {"none", "startup", "runtime", "ErrServerClosed"}]
    /\ inShutdown \in [Servers -> BOOLEAN]
    /\ active \in [Servers -> 0..MaxConns]
    /\ started \in [Servers -> BOOLEAN]
    /\ served \in [Servers -> BOOLEAN]
    /\ stopCalls \in [Servers -> 0..2]
    /\ stopResult \in [Servers -> {"none", "nil", "deadline"}]
    /\ delivered \in [Servers -> BOOLEAN]
    /\ trigger \in {"none", "signal", "listener"}
    /\ consumed \in 0..MaxSignals + 2

\* ---------------------------------------------------------------- claims
Exited == mainPc = "exited"

\* A listener error other than the ErrServerClosed a cooperative stop yields.
Failed(s) == terr[s] \in {"startup", "runtime"}

\* C1: if the plaintext listener fails at runtime while the secure listener
\* is running, then by the time the process has exited Shutdown was called
\* on the secure listener and the exit status is a failure status.
C1_PlainFailureStopsSecure ==
    (Exited /\ failedWhilePeerServing["http"])
        => (stopCalls["https"] >= 1 /\ exitCode # 0)

\* C2: when the signal that triggers the shutdown arrived while both
\* listeners were running and no listener has failed, Shutdown is called on
\* both listeners before the exit, and the exit status is 0 if both calls
\* returned nil.
C2_SignalStopsBoth ==
    (Exited /\ trigger = "signal" /\ signalWhileHealthy
            /\ \A s \in Servers : ~Failed(s))
        => /\ \A s \in Servers : stopCalls[s] >= 1
           /\ (\A s \in Servers : stopResult[s] = "nil") => exitCode = 0

\* C3: the exit status is 0 only after a signal-triggered shutdown whose
\* Shutdown calls all returned nil, and every run in which a listener
\* failed to start, failed at runtime, or a Shutdown call hit the deadline
\* exits with a non-zero status.
C3_ExitStatus ==
    Exited =>
        /\ exitCode = 0 =>
              (trigger = "signal" /\ \A s \in Servers : stopResult[s] = "nil")
        /\ ((\E s \in Servers : Failed(s) \/ stopResult[s] = "deadline")
              => exitCode # 0)

\* C4: once a Shutdown call on either listener has returned the deadline
\* error, the process has exited with a failure status, whatever the
\* trigger was and whatever the other Shutdown call returned.
C4_DeadlineIsFatal ==
    \A s \in Servers :
        stopResult[s] = "deadline" => (Exited /\ exitCode = FatalStatus)

\* C4 witness: a signal-triggered shutdown in which the plaintext listener
\* stopped cleanly and the secure listener's Shutdown hit the deadline.
C4_Witness ==
    /\ Exited
    /\ trigger = "signal"
    /\ stopResult["http"] = "nil"
    /\ stopResult["https"] = "deadline"

\* C5: when the process has exited, Shutdown was called on every listener
\* that had been started, whichever event triggered the shutdown.
C5_StopOnEveryStarted ==
    Exited => \A s \in Servers : started[s] => stopCalls[s] >= 1

\* C6: if cert.pem or key.pem is missing from the TLS material directory,
\* the TLS task never reaches ListenAndServeTLS and never holds or delivers
\* an error for errChan, and the process does not exit before main has
\* taken a signal or a listener error.
C6_NoMaterialNoSecureListener ==
    (InCertDir(CertFile) \notin fs \/ InCertDir(KeyFile) \notin fs)
        => /\ tpc["https"] \in {"statCert", "statKey", "returned"}
           /\ ~started["https"]
           /\ terr["https"] = "none"
           /\ (trigger = "none" => ~Exited)

\* C7: no server receives more than one Shutdown call.
C7_AtMostOneStop ==
    \A s \in Servers : stopCalls[s] <= 1

\* C7 witness: both servers were stopped, a second signal was sent and a
\* listener failure is pending, and the process has exited.
C7_Witness ==
    /\ Exited
    /\ \A s \in Servers : stopCalls[s] = 1
    /\ signalsSent = 2
    /\ \E s \in Servers : terr[s] = "runtime"

\* C8: when the process has exited, every started listener has exactly one
\* recorded terminal outcome: its error was received from errChan, or a
\* Shutdown call on it has returned.
C8_OneOutcomePerStarted ==
    Exited =>
        \A s \in Servers :
            started[s] => (delivered[s] # (stopResult[s] # "none"))

\* C9: the Shutdown of the secure listener is issued without waiting for
\* the Shutdown of the plaintext listener: whenever the plaintext call has
\* returned, with nil or with an error, the secure call has been made.
C9_ParallelStops ==
    stopResult["http"] # "none" => stopCalls["https"] >= 1

\* C10: main takes at most one event from quit and errChan together, and
\* once it has taken one, no step takes another signal from quit, receives
\* another error from errChan, or changes the trigger.
C10_SingleArbitration ==
    /\ [](consumed <= 1)
    /\ [][trigger # "none" =>
            /\ trigger' = trigger
            /\ consumed' = consumed
            /\ quit' >= quit
            /\ delivered' = delivered]_vars

\* C10 witness: the shutdown ran to its end on a signal while a second
\* signal sat in quit and a listener's runtime error waited to be sent.
C10_Witness ==
    /\ Exited
    /\ trigger = "signal"
    /\ consumed = 1
    /\ quit = 1
    /\ \E s \in Servers : tpc[s] = "sending" /\ terr[s] = "runtime"

C12_SendNeverBlocks ==
    \A s \in Servers :
        (Running /\ tpc[s] = "sending") => mainPc = "select"

\* C13: a listener startup error is never received from errChan, and once
\* a listener has failed to start the process exits with a failure status.
C13_StartupErrorBypassesFunnel ==
    \A s \in Servers :
        terr[s] = "startup" =>
            /\ ~delivered[s]
            /\ (Exited => exitCode # 0)

\* C14: when a listener's startup error has ended the process, no listener
\* has accepted a connection.
C14_NoTrafficBeforeStartupAbort ==
    \A s \in Servers :
        (Exited /\ delivered[s] /\ terr[s] = "startup")
            => \A u \in Servers : ~served[u]

\* C15: once main has taken a signal or a listener error the process
\* eventually exits, even with a connection that never completes, and the
\* one context of the shutdown, once expired, stays expired for the second
\* Shutdown call.
C15_ShutdownTerminates ==
    /\ (trigger # "none") ~> Exited
    /\ [][ctx = "expired" => ctx' = "expired"]_vars

\* C15 witness: the second Shutdown call was made after the shared deadline
\* had passed, on a server with a connection still in flight, and returned
\* the deadline error.
C15_Witness ==
    /\ Exited
    /\ ctx = "expired"
    /\ stopResult[FirstStop] = "nil"
    /\ active[SecondStop] > 0
    /\ stopResult[SecondStop] = "deadline"

\* Position of a listener task in its one pass through its code.
Rank(pc) ==
    CASE pc = "statCert" -> 0
      [] pc = "statKey" -> 1
      [] pc = "listen" -> 2
      [] pc = "serving" -> 3
      [] pc = "sending" -> 4
      [] OTHER -> 5

\* C16: a listener task only moves forward (not started, running,
\* terminated), and a server whose listener was bound once never comes back
\* to its listen call: no listener is restarted.
C16_MonotonicLifecycle ==
    [][\A s \in Servers :
          /\ Rank(tpc'[s]) >= Rank(tpc[s])
          /\ started[s] => (started'[s] /\ tpc'[s] # "listen")]_vars

\* C16 witness: a started listener failed at runtime, its error was
\* received and the process exited.
C16_Witness ==
    /\ Exited
    /\ \E s \in Servers :
          started[s] /\ terr[s] = "runtime" /\ tpc[s] = "done"

\* C17: with the TLS probe failed, a signal-triggered shutdown in which the
\* plaintext Shutdown returned nil ends with status 0: the Shutdown call on
\* the never-started secure server returns nil and its task holds and
\* delivers no error.
C17_PlainOnlyCleanExit ==
    (Exited /\ tpc["https"] = "returned" /\ trigger = "signal"
            /\ stopResult["http"] = "nil")
        => /\ exitCode = 0
           /\ stopCalls["https"] = 1
           /\ stopResult["https"] = "nil"
           /\ terr["https"] = "none"
           /\ ~delivered["https"]

\* C17 witness: plaintext-only run, the plaintext listener served and was
\* stopped on a signal, and the process has exited.
C17_Witness ==
    /\ Exited
    /\ tpc["https"] = "returned"
    /\ trigger = "signal"
    /\ served["http"]
    /\ stopResult["http"] = "nil"
    /\ exitCode = 0

\* C18: once Shutdown has been called on a server, its task never begins
\* to serve and accepts no further connection; and when a task reached its
\* listen call only after the stop, a signal-triggered shutdown whose
\* Shutdown calls returned nil still exits with status 0.
C18_NoServeAfterStop ==
    /\ [][\A s \in Servers :
            inShutdown[s] =>
                /\ tpc'[s] = "serving" => tpc[s] = "serving"
                /\ active'[s] <= active[s]
                /\ served'[s] = served[s]
                /\ started'[s] = started[s]]_vars
    /\ [](\A s \in Servers :
            (Exited /\ ~started[s] /\ terr[s] = "ErrServerClosed"
                    /\ \A u \in Servers : stopResult[u] = "nil")
                => exitCode = 0)

\* C18 witness: the signal was handled before the TLS task reached
\* ListenAndServeTLS; the call returned ErrServerClosed without binding and
\* the process exited with status 0.
C18_Witness ==
    /\ Exited
    /\ exitCode = 0
    /\ ~started["https"]
    /\ tpc["https"] = "sending"
    /\ terr["https"] = "ErrServerClosed"

====
